---- MODULE Spec2Model ----
(***************************************************************************)
(* Serverless analytics facade: the Request Router (handlers/api_handler)  *)
(* over the Analytics Service (services/analytics_service), which talks to *)
(* a point store (DynamoDB table analytics-events), an archival store (S3  *)
(* bucket) and a SQL query service (Athena).  One request is handled at a  *)
(* time; the backends' failures and answers are the environment's choice.  *)
(***************************************************************************)
EXTENDS Integers, Sequences, FiniteSets, TLC

\* ------------------------------------------------------------------ bounds

\* Largest value of the wall clock, in whole seconds.
MaxTime == 2
\* Longest event list of a batch request under SpecBatch.
MaxEvents == 27
\* Longest event list of a batch request under Spec.
MaxShort == 2
\* Most data rows of a result set the SQL service returns.
MaxRows == 2

\* --------------------------------------------------------- program constants

\* analytics_service.py:208, the point store's batch-size ceiling.
batch_size == 25
\* analytics_service.py:147, the number of status polls.
max_attempts == 30

\* ------------------------------------------------------------------- data

\* A key a Python dict does not hold.
Absent == "<absent>"

\* Python's None where a mapping is expected: no value handed back, no call yet.
None == [none |-> TRUE]

\* An event: the four keys the program reads; Absent for a key not in the dict.
Event(u, ty, ts, id) ==
    [user_id |-> u, event_type |-> ty, timestamp |-> ts, event_id |-> id]

\* Python's `field in d`.
has(d, field) == d[field] # Absent

\* A mapping with no keys, and dict assignment m[k] = v.
EmptyMap == [x \in {} |-> x]

Put(m, k, v) == [x \in DOMAIN m \cup {k} |-> IF x = k THEN v ELSE m[x]]

\* datetime.isoformat() of the clock reading t.
isoformat(t) == "T" \o ToString(t)

\* datetime.fromisoformat: defined on the strings isoformat produces only.
CanParse(s) == \E t \in 0..MaxTime : isoformat(t) = s

fromisoformat(s) == CHOOSE t \in 0..MaxTime : isoformat(t) = s

\* f"{user_id}_{int(datetime.now().timestamp())}"
derived_event_id(u, t) == u \o "_" \o ToString(t)

\* The archival key: the date partition read from the parsed timestamp (kept at
\* the clock's resolution), then the event id.
s3_key(event) ==
    "events/" \o ToString(fromisoformat(event.timestamp)) \o "/"
        \o event.event_id \o ".json"

\* The message of a failed point-store call, and of a failed batch flush.
DdbError == "ProvisionedThroughputExceeded"

FlushError == "BatchWriteItem failed"

\* str(KeyError('user_id'))
KeyErrorUserId == "'user_id'"

VARIABLES
    now,            \* the wall clock, in seconds
    events_table,   \* point store: event_id -> item
    s3_objects,     \* archival store: key -> body
    acked,          \* event_id -> the event of the last store_event that returned
    pc,             \* "idle", or the handler in progress: "batch", "query"
    result,         \* the outcome of the last completed operation
    b,              \* store_events_batch in progress: its locals
    q               \* execute_athena_query in progress: its locals

vars == <<now, events_table, s3_objects, acked, pc, result, b, q>>

\* --------------------------------------------------------- Analytics Service

\* AnalyticsService._store_event_to_s3: the new bucket, whether a put was
\* attempted, and whether an exception left the method (it never does: the
\* except clause of line 58 takes every Exception).
store_event_to_s3_raising(s3, event, s3_ok) ==
    IF ~has(event, "timestamp") \/ ~CanParse(event.timestamp)
            \/ ~has(event, "event_id")
    THEN [s3 |-> s3, attempted |-> FALSE, raised |-> TRUE]
    ELSE IF s3_ok
    THEN [s3 |-> Put(s3, s3_key(event), event), attempted |-> TRUE, raised |-> FALSE]
    ELSE [s3 |-> s3, attempted |-> TRUE, raised |-> TRUE]

store_event_to_s3(s3, event, s3_ok) ==
    IF ~has(event, "timestamp") \/ ~CanParse(event.timestamp)
            \/ ~has(event, "event_id")
    THEN \* KeyError or ValueError before the put, caught
         [s3 |-> s3, attempted |-> FALSE, raised |-> FALSE]
    ELSE IF s3_ok
    THEN [s3 |-> Put(s3, s3_key(event), event), attempted |-> TRUE, raised |-> FALSE]
    ELSE \* put_object raised, caught
         [s3 |-> s3, attempted |-> TRUE, raised |-> FALSE]

\* Table.put_item: the key attribute is required; otherwise the environment
\* decides (put_ok).  An unconditional write.
put_item_conditional(table, item, put_ok) ==
    IF ~has(item, "event_id") \/ ~put_ok
    THEN [ok |-> FALSE, table |-> table]
    ELSE IF item.event_id \in DOMAIN table
    THEN [ok |-> TRUE, table |-> table]
    ELSE [ok |-> TRUE, table |-> Put(table, item.event_id, item)]

put_item(table, item, put_ok) ==
    IF ~has(item, "event_id") \/ ~put_ok
    THEN [ok |-> FALSE, table |-> table]
    ELSE [ok |-> TRUE, table |-> Put(table, item.event_id, item)]

\* AnalyticsService.store_event, with the archival write first.
store_event_s3_first(table, s3, event_data, put_ok, s3_ok) ==
    LET a == store_event_to_s3(s3, event_data, s3_ok)
        p == put_item(table, event_data, put_ok)
    IN  IF ~p.ok
        THEN [outcome |-> "raised", value |-> Absent,
              error |-> "Failed to store event: " \o DdbError,
              table |-> table, s3 |-> a.s3, s3_attempts |-> IF a.attempted THEN 1 ELSE 0]
        ELSE [outcome |-> "returned", value |-> event_data.event_id, error |-> Absent,
              table |-> p.table, s3 |-> a.s3, s3_attempts |-> IF a.attempted THEN 1 ELSE 0]

\* AnalyticsService.store_event
store_event(table, s3, event_data, put_ok, s3_ok) ==
    LET p == put_item(table, event_data, put_ok)
    IN  IF ~p.ok
        THEN [outcome |-> "raised", value |-> Absent,
              error |-> "Failed to store event: " \o DdbError,
              table |-> table, s3 |-> s3, s3_attempts |-> 0]
        ELSE LET a == store_event_to_s3(s3, event_data, s3_ok)
             IN  IF a.raised
                 THEN [outcome |-> "raised", value |-> Absent,
                       error |-> "Failed to store event: archival",
                       table |-> p.table, s3 |-> a.s3,
                       s3_attempts |-> IF a.attempted THEN 1 ELSE 0]
                 ELSE [outcome |-> "returned", value |-> event_data.event_id,
                       error |-> Absent, table |-> p.table, s3 |-> a.s3,
                       s3_attempts |-> IF a.attempted THEN 1 ELSE 0]

\* AnalyticsService.get_event: the item, None (Absent), or a failure.
service_get_event(table, event_id, get_ok) ==
    IF ~get_ok
    THEN [outcome |-> "raised", found |-> FALSE, value |-> Absent,
          error |-> "Failed to get event: " \o DdbError]
    ELSE [outcome |-> "returned", found |-> event_id \in DOMAIN table,
          value |-> IF event_id \in DOMAIN table THEN table[event_id] ELSE Absent,
          error |-> Absent]

\* ------------------------------------------------------------ inputs

\* Bodies of POST /events.
EventBodies ==
    { Event("u1", "click", Absent, Absent),
      Event("u1", "click", isoformat(0), "x"),
      Event(Absent, "click", Absent, Absent),
      Event("u1", Absent, Absent, "x"),
      Event(Absent, Absent, Absent, Absent) }

\* Events a caller hands to the service directly.
ServiceEvents ==
    { Event("u1", "click", "garbage", "x"),
      Event("u1", "view", isoformat(1), "x"),
      Event("u1", "click", isoformat(1), Absent) }

EventIds == {"x", "nonexistent"} \cup {derived_event_id("u1", t) : t \in 1..MaxTime}

\* The outcome of an operation: which one, on what input, with what status
\* ("200".."500" for a route, "returned"/"raised" for a service method), the
\* error message, the value, the service methods the route called and the
\* numbers of point-store and archival puts attempted.
Outcome(op, input, status, error, value, calls, s3_attempts) ==
    [op |-> op, input |-> input, status |-> status, error |-> error,
     value |-> value, calls |-> calls, s3_attempts |-> s3_attempts]

\* What store_event hands back (line 41): the event's id, or nothing when it raised.
returned(r) == IF r.outcome = "raised" THEN None ELSE [event_id |-> r.value]

NoBatch == [active |-> FALSE]

NoQuery == [active |-> FALSE]

Init ==
    /\ now = 1
    /\ events_table = EmptyMap
    /\ s3_objects = EmptyMap
    /\ acked = EmptyMap
    /\ pc = "idle"
    /\ result = Outcome("none", None, Absent, Absent, None, {}, 0)
    /\ b = NoBatch
    /\ q = NoQuery

\* The clock advances.
Tick ==
    /\ pc = "idle"
    /\ now < MaxTime
    /\ now' = now + 1
    /\ UNCHANGED <<events_table, s3_objects, acked, pc, result, b, q>>

\* ------------------------------------------------------------ Request Router

\* The first required field the body lacks, in the declared order.
first_missing(body, required_fields) ==
    LET missing == {i \in 1..Len(required_fields) : ~has(body, required_fields[i])}
    IN  IF missing = {} THEN Absent
        ELSE required_fields[CHOOSE i \in missing : \A j \in missing : i <= j]

\* create_event's "Add metadata": both fields are assigned unconditionally.
add_metadata(body, t) ==
    [body EXCEPT !.timestamp = isoformat(t),
                 !.event_id = derived_event_id(body.user_id, t)]

\* The backends' behaviour during one store_event of `event`: whether the
\* point-store put and the archival put succeed.  A put that is never asked for
\* (the table refuses an item without its key, and nothing is archived after a
\* failed point-store put) is not varied.
Backends(event) ==
    { bk \in [put_ok : BOOLEAN, s3_ok : BOOLEAN] :
        /\ ~has(event, "event_id") => ~bk.put_ok
        /\ ~bk.put_ok => bk.s3_ok }

\* A caller calls AnalyticsService.store_event.
ServiceStoreEvent ==
    /\ pc = "idle"
    /\ \E event \in ServiceEvents : \E bk \in Backends(event) :
         LET put_ok == bk.put_ok
             s3_ok == bk.s3_ok
             r == store_event(events_table, s3_objects, event, put_ok, s3_ok)
         IN  /\ events_table' = r.table
             /\ s3_objects' = r.s3
             /\ acked' = IF r.outcome = "returned"
                         THEN Put(acked, event.event_id, event) ELSE acked
             /\ result' = Outcome("store_event",
                                  [body |-> event, event |-> event, put_ok |-> put_ok,
                                   s3_ok |-> s3_ok, t |-> now],
                                  r.outcome, r.error, returned(r), {"store_event"},
                                  r.s3_attempts)
    /\ UNCHANGED <<now, pc, b, q>>

\* create_event with the required fields checked after the store.
create_event_validate_late(body, put_ok, s3_ok) ==
    LET missing == first_missing(body, <<"user_id", "event_type">>)
        event_data == add_metadata(body, now)
        r == store_event(events_table, s3_objects, event_data, put_ok, s3_ok)
        input == [body |-> body, event |-> event_data, put_ok |-> put_ok,
                  s3_ok |-> s3_ok, t |-> now]
    IN  /\ events_table' = r.table
        /\ s3_objects' = r.s3
        /\ acked' = IF r.outcome = "returned"
                    THEN Put(acked, event_data.event_id, event_data) ELSE acked
        /\ result' = IF missing # Absent
                     THEN Outcome("create_event", input, "400",
                                  "Missing required field: " \o missing, None,
                                  {"store_event"}, r.s3_attempts)
                     ELSE Outcome("create_event", input,
                                  IF r.outcome = "raised" THEN "500" ELSE "200",
                                  r.error, returned(r), {"store_event"}, r.s3_attempts)

\* POST /events
create_event(body, put_ok, s3_ok) ==
    LET missing == first_missing(body, <<"user_id", "event_type">>)
        event_data == add_metadata(body, now)
        r == store_event(events_table, s3_objects, event_data, put_ok, s3_ok)
        input == [body |-> body, event |-> event_data, put_ok |-> put_ok,
                  s3_ok |-> s3_ok, t |-> now]
    IN  IF missing # Absent
        THEN /\ result' = Outcome("create_event", input, "400",
                                  "Missing required field: " \o missing, None, {}, 0)
             /\ UNCHANGED <<events_table, s3_objects, acked>>
        ELSE /\ events_table' = r.table
             /\ s3_objects' = r.s3
             /\ acked' = IF r.outcome = "returned"
                         THEN Put(acked, event_data.event_id, event_data) ELSE acked
             /\ result' = Outcome("create_event", input,
                                  IF r.outcome = "raised" THEN "500" ELSE "200",
                                  r.error, returned(r), {"store_event"}, r.s3_attempts)

PostEvents ==
    /\ pc = "idle"
    /\ \E body \in EventBodies :
         \E bk \in Backends(Event("u1", "click", isoformat(now), "id")) :
           /\ first_missing(body, <<"user_id", "event_type">>) # Absent
                 => bk.put_ok /\ bk.s3_ok
           /\ create_event(body, bk.put_ok, bk.s3_ok)
    /\ UNCHANGED <<now, pc, b, q>>

\* GET /events/<event_id>
get_event(event_id, get_ok) ==
    LET r == service_get_event(events_table, event_id, get_ok)
    IN  result' =
          IF r.outcome = "raised"
          THEN Outcome("get_event", [event_id |-> event_id, get_ok |-> get_ok], "500",
                       r.error, None, {"get_event"}, 0)
          ELSE IF ~r.found
          THEN Outcome("get_event", [event_id |-> event_id, get_ok |-> get_ok], "404",
                       "Event not found", None, {"get_event"}, 0)
          ELSE Outcome("get_event", [event_id |-> event_id, get_ok |-> get_ok], "200",
                       Absent, r.value, {"get_event"}, 0)

GetEvent ==
    /\ pc = "idle"
    /\ \E event_id \in EventIds, get_ok \in BOOLEAN : get_event(event_id, get_ok)
    /\ UNCHANGED <<now, events_table, s3_objects, acked, pc, b, q>>

\* ------------------------------------------------- store_events_batch

\* Event lists of POST /batch/events under Spec: every list of at most MaxShort
\* events of this pool.
ShortEvents ==
    { Event("u1", "click", Absent, Absent),
      Event("u1", "click", "garbage", "x") }

ShortLists == UNION { [1..n -> ShortEvents] : n \in 0..MaxShort }

\* Event lists under SpecBatch: n events with their own ids e1..en, the one at
\* position `bad` (if any) without user_id.
LongList(n, bad) ==
    [j \in 1..n |-> Event(IF j = bad THEN Absent ELSE "u1", "click", Absent,
                          "e" \o ToString(j))]

LongLists == { LongList(n, bad) : n \in 0..MaxEvents, bad \in 0..MaxEvents }

\* Lines 216-217.  The timestamp is assigned first; the default of the second
\* get() is evaluated whether or not event_id is present, so an event without
\* user_id raises KeyError there, with the timestamp already assigned.
inject_metadata(event, t) ==
    LET e1 == [event EXCEPT !.timestamp =
                   IF has(event, "timestamp") THEN event.timestamp ELSE isoformat(t)]
    IN  IF ~has(e1, "user_id")
        THEN [raised |-> TRUE, event |-> e1]
        ELSE [raised |-> FALSE,
              event |-> [e1 EXCEPT !.event_id =
                            IF has(e1, "event_id") THEN e1.event_id
                            ELSE derived_event_id(e1.user_id, t)]]

\* The batch writer sends its buffer: on success every buffered item is written
\* (a later item of the same key last); the buffer is emptied either way.
flush(table, buffer, ok) ==
    IF ~ok \/ buffer = <<>> THEN table
    ELSE LET ids == {buffer[j].event_id : j \in 1..Len(buffer)}
             last(id) == CHOOSE j \in 1..Len(buffer) :
                            /\ buffer[j].event_id = id
                            /\ \A l \in 1..Len(buffer) : buffer[l].event_id = id => l <= j
         IN  [x \in DOMAIN table \cup ids |->
                 IF x \in ids THEN buffer[last(x)] ELSE table[x]]

\* The length of the chunk that starts after the first i events.
chunk_len(n, i) == IF n - i < batch_size THEN n - i ELSE batch_size

\* The except clause reporting the chunk's first event only.
fail_first_of_chunk(failed, events, i, len, err) ==
    failed \o << [event |-> events[i + 1], error |-> err] >>

\* Lines 225-230: every event of the chunk is reported failed with str(e).
fail_chunk(failed, events, i, len, err) ==
    failed \o [j \in 1..len |-> [event |-> events[i + j], error |-> err]]


\* POST /batch/events: whether the body holds "events", and the list.
create_batch_events(has_events, events, s3_mode) ==
    IF ~has_events
    THEN /\ result' = Outcome("create_batch_events", [has_events |-> FALSE], "400",
                              "Missing required field: events", None, {}, 0)
         /\ UNCHANGED <<pc, b>>
    ELSE /\ pc' = "batch"
         /\ b' = [active |-> TRUE, input |-> events, events |-> events, i |-> 0,
                  k |-> 0, buffer |-> <<>>, successful |-> <<>>, failed |-> <<>>,
                  log |-> <<>>, s3_mode |-> s3_mode, s3_attempts |-> 0, flushes |-> 0]
         /\ result' = Outcome("none", None, Absent, Absent, None,
                              {"store_events_batch"}, 0)

PostBatchEvents ==
    /\ pc = "idle"
    /\ \E has_events \in BOOLEAN, events \in ShortLists :
         /\ ~has_events => events = <<>>
         /\ create_batch_events(has_events, events, "any")
    /\ UNCHANGED <<now, events_table, s3_objects, acked>>
    /\ UNCHANGED q

\* The chunk ends with exception err: the writer's __exit__ sends what is
\* buffered (a failure there replaces err), then the except clause runs.
chunk_raised(events, buffer, successful, err, exit_ok, s3, attempts) ==
    LET n == Len(events)
        len == chunk_len(n, b.i)
        sent == buffer # <<>>
        e == IF sent /\ ~exit_ok THEN FlushError ELSE err
    IN  /\ events_table' = flush(events_table, buffer, exit_ok)
        /\ s3_objects' = s3
        /\ acked' = [x \in DOMAIN acked \ (IF exit_ok
                          THEN {buffer[j].event_id : j \in 1..Len(buffer)} ELSE {})
                      |-> acked[x]]
        /\ b' = [b EXCEPT !.events = events, !.i = b.i + batch_size, !.k = 0,
                          !.buffer = <<>>, !.successful = successful,
                          !.failed = fail_chunk(b.failed, events, b.i, len, e),
                          !.log = Append(b.log, [error |-> e, puts |-> b.k]),
                          !.s3_attempts = attempts,
                          !.flushes = b.flushes + (IF sent THEN 1 ELSE 0)]

\* One iteration of the inner loop (lines 214-223) on the next event of the
\* chunk; an exception ends the chunk.
batch_put(flush_ok, exit_ok, s3_ok) ==
    LET idx == b.i + b.k + 1
        m == inject_metadata(b.events[idx], now)
        events == [b.events EXCEPT ![idx] = m.event]
        buffer == Append(b.buffer, m.event)
        full == Len(buffer) >= batch_size
        a == store_event_to_s3(s3_objects, m.event, s3_ok)
        attempts == b.s3_attempts + (IF a.attempted THEN 1 ELSE 0)
    IN  IF m.raised
        THEN chunk_raised(events, b.buffer, b.successful, KeyErrorUserId, exit_ok,
                          s3_objects, b.s3_attempts)
        ELSE IF full /\ ~flush_ok
        THEN \* the automatic flush of a full buffer failed inside put_item
             chunk_raised(events, <<>>, b.successful, FlushError, exit_ok,
                          s3_objects, b.s3_attempts)
        ELSE IF a.raised
        THEN chunk_raised(events, IF full THEN <<>> ELSE buffer,
                          Append(b.successful, m.event.event_id),
                          "archival", exit_ok, a.s3, attempts)
        ELSE /\ events_table' = IF full THEN flush(events_table, buffer, TRUE)
                                ELSE events_table
             /\ s3_objects' = a.s3
             /\ acked' = [x \in DOMAIN acked \ (IF full
                               THEN {buffer[j].event_id : j \in 1..Len(buffer)} ELSE {})
                           |-> acked[x]]
             /\ b' = [b EXCEPT !.events = events, !.k = b.k + 1,
                               !.buffer = IF full THEN <<>> ELSE buffer,
                               !.successful = Append(b.successful, m.event.event_id),
                               !.s3_attempts = attempts,
                               !.flushes = b.flushes + (IF full THEN 1 ELSE 0)]

BatchPut ==
    /\ pc = "batch"
    /\ b.i < Len(b.events)
    /\ b.k < chunk_len(Len(b.events), b.i)
    /\ \E flush_ok \in BOOLEAN, exit_ok \in BOOLEAN,
          s3_ok \in (IF b.s3_mode = "any" THEN BOOLEAN ELSE {b.s3_mode = "up"}) :
         batch_put(flush_ok, exit_ok, s3_ok)
    /\ UNCHANGED <<now, pc, result, q>>

\* The with block ends normally (line 213's __exit__): what is still buffered
\* is sent; a failure is the chunk's exception.
batch_exit(exit_ok) ==
    LET len == chunk_len(Len(b.events), b.i)
        sent == b.buffer # <<>>
    IN  IF sent /\ ~exit_ok
        THEN chunk_raised(b.events, b.buffer, b.successful, FlushError, FALSE,
                          s3_objects, b.s3_attempts)
        ELSE /\ events_table' = flush(events_table, b.buffer, TRUE)
             /\ acked' = [x \in DOMAIN acked \
                               {b.buffer[j].event_id : j \in 1..Len(b.buffer)}
                           |-> acked[x]]
             /\ b' = [b EXCEPT !.i = b.i + batch_size, !.k = 0, !.buffer = <<>>,
                               !.log = Append(b.log, [error |-> Absent, puts |-> len]),
                               !.flushes = b.flushes + (IF sent THEN 1 ELSE 0)]
             /\ UNCHANGED s3_objects

BatchExit ==
    /\ pc = "batch"
    /\ b.i < Len(b.events)
    /\ b.k = chunk_len(Len(b.events), b.i)
    /\ \E exit_ok \in BOOLEAN : batch_exit(exit_ok)
    /\ UNCHANGED <<now, pc, result, q>>

\* Lines 232-235, then create_batch_events' response (lines 232-239).
BatchReturn ==
    /\ pc = "batch"
    /\ b.i >= Len(b.events)
    /\ result' = Outcome("create_batch_events",
                         [has_events |-> TRUE, events |-> b.input, final |-> b.events,
                          log |-> b.log,
                          flushes |-> b.flushes, t |-> now],
                         "200", Absent,
                         [processed |-> Len(b.successful), failed |-> Len(b.failed),
                          results |-> [successful |-> b.successful, failed |-> b.failed]],
                         {"store_events_batch"}, b.s3_attempts)
    /\ pc' = "idle"
    /\ b' = NoBatch
    /\ UNCHANGED <<now, events_table, s3_objects, acked, q>>

\* One batch request against empty stores, its archival store up or down for
\* the whole request.
PostBatchEventsLong ==
    /\ pc = "idle"
    /\ result.op = "none" /\ result.calls = {}
    /\ \E events \in LongLists, s3_mode \in {"up", "down"} :
         create_batch_events(TRUE, events, s3_mode)
    /\ UNCHANGED <<now, events_table, s3_objects, acked>>
    /\ UNCHANGED q

\* ------------------------------------------------- execute_athena_query

\* The execution states the SQL service reports.
Terminal == {"SUCCEEDED", "FAILED", "CANCELLED"}

Statuses == {"QUEUED", "RUNNING"} \cup Terminal

\* StateChangeReason, Absent when the service states none.
Reasons == {Absent, "syntax error"}

\* Rows: a row is the sequence of its cells, a cell its VarCharValue or Absent
\* (a null).  A header cell always names its column.
Headers == { <<"a">>, <<"a", "b">>, <<"a", "a">> }

DataRows ==
    { <<>>, <<"1">>, <<Absent>>, <<"1", "2">>, <<"1", Absent>>, <<"1", "2", "3">> }

RowSets ==
    {<<>>} \cup
    UNION { { <<h>> \o d : h \in Headers, d \in [1..k -> DataRows] } : k \in 0..MaxRows }

\* The result sets under Spec.
FewRowSets == { <<>>, << <<"a">>, <<"1">> >> }

\* col.get('VarCharValue', '')
cell_value(cell) == IF cell = Absent THEN "" ELSE cell

\* Lines 195-197: the mapping of one data row; a later cell of the same column
\* name replaces an earlier one.
row_data(columns, row) ==
    [c \in {columns[i] : i \in 1..Len(row)} |->
        cell_value(row[CHOOSE i \in 1..Len(row) :
                          /\ columns[i] = c
                          /\ \A j \in 1..Len(row) : columns[j] = c => j <= i])]

\* AnalyticsService._parse_athena_results: the parsed rows, or the exception.
parse_athena_results(rows) ==
    IF rows = <<>>
    THEN [raised |-> FALSE, error |-> Absent, data |-> <<>>]
    ELSE LET columns == rows[1]
         IN  IF \E i \in 1..Len(columns) : columns[i] = Absent
             THEN [raised |-> TRUE, error |-> "'VarCharValue'", data |-> <<>>]
             ELSE IF \E r \in 2..Len(rows) : Len(rows[r]) > Len(columns)
             THEN [raised |-> TRUE, error |-> "list index out of range", data |-> <<>>]
             ELSE [raised |-> FALSE, error |-> Absent,
                   data |-> [r \in 1..(Len(rows) - 1) |-> row_data(columns, rows[r + 1])]]

\* POST /query: the validation, then start_query_execution (lines 136-144).
execute_query(has_sql, sql) ==
    IF ~has_sql
    THEN /\ result' = Outcome("execute_query", [has_sql |-> FALSE], "400",
                              "Missing required field: sql", None, {}, 0)
         /\ UNCHANGED <<pc, q>>
    ELSE /\ pc' = "query"
         /\ q' = [active |-> TRUE, has_sql |-> TRUE, sql |-> sql, attempt |-> 0, submits |-> 1,
                  polls |-> 0, sleeps |-> 0, fetches |-> 0, last_status |-> Absent,
                  reason |-> Absent, rows |-> <<>>]
         /\ result' = Outcome("none", None, Absent, Absent, None,
                              {"execute_athena_query"}, 0)

PostQuery ==
    /\ pc = "idle"
    /\ \E has_sql \in BOOLEAN : execute_query(has_sql, "SELECT 1")
    /\ UNCHANGED <<now, events_table, s3_objects, acked, b>>

\* Whether the for loop of line 148 is over after the iteration `attempt`.
loop_one_more(attempt) == attempt + 1 > max_attempts

loop_exhausted(attempt) == attempt + 1 >= max_attempts

\* The service's failure wrapped by line 180, rendered by line 172; `done` is
\* the finished call.
query_failed(done, message) ==
    Outcome("execute_query", done, "500",
            "Failed to execute Athena query: " \o message, None,
            {"execute_athena_query"}, 0)

\* One iteration of the polling loop (lines 148-175), and what follows it when it
\* is the last: the service reports `status` (with `reason`), and `rows` if asked.
query_poll(status, reason, rows) ==
    LET polled == [q EXCEPT !.polls = q.polls + 1, !.last_status = status,
                            !.reason = IF status \in {"FAILED", "CANCELLED"}
                                       THEN reason ELSE Absent]
        slept == [polled EXCEPT !.sleeps = q.sleeps + 1, !.attempt = q.attempt + 1]
    IN  IF status = "SUCCEEDED"
        THEN LET parsed == parse_athena_results(rows)
                 done == [polled EXCEPT !.fetches = q.fetches + 1, !.rows = rows]
             IN  /\ q' = NoQuery
                 /\ pc' = "idle"
                 /\ result' =
                      IF parsed.raised THEN query_failed(done, parsed.error)
                      ELSE Outcome("execute_query", done, "200", Absent,
                                   [query_execution_id |-> "qid", results |-> parsed.data],
                                   {"execute_athena_query"}, 0)
        ELSE IF status \in {"FAILED", "CANCELLED"}
        THEN /\ q' = NoQuery
             /\ pc' = "idle"
             /\ result' = query_failed(polled, "Query failed: " \o
                              (IF reason = Absent THEN "Unknown error" ELSE reason))
        ELSE IF loop_exhausted(q.attempt)
        THEN /\ q' = NoQuery
             /\ pc' = "idle"
             /\ result' = query_failed(slept, "Query timeout")
        ELSE /\ q' = slept
             /\ pc' = "query"
             /\ UNCHANGED result

\* The environment's choices: a reason is stated with FAILED and CANCELLED only,
\* rows are asked for after SUCCEEDED only.
Answers(rowsets) ==
    { <<status, reason, rows>> : status \in Statuses, reason \in Reasons, rows \in rowsets }

Consulted(answer) ==
    /\ answer[1] \notin {"FAILED", "CANCELLED"} => answer[2] = Absent
    /\ answer[1] # "SUCCEEDED" => answer[3] = <<>>

QueryPoll ==
    /\ pc = "query"
    /\ \E answer \in {a \in Answers(FewRowSets) : Consulted(a)} :
         query_poll(answer[1], answer[2], answer[3])
    /\ UNCHANGED <<now, events_table, s3_objects, acked, b>>

QueryPollAnyRows ==
    /\ pc = "query"
    /\ \E answer \in {a \in Answers(RowSets) : Consulted(a)} :
         query_poll(answer[1], answer[2], answer[3])
    /\ UNCHANGED <<now, events_table, s3_objects, acked, b>>

\* The event routes, the service's store_event and the clock; batches of at most
\* MaxShort events.
Next ==
    \/ Tick
    \/ ServiceStoreEvent
    \/ PostEvents
    \/ GetEvent
    \/ PostBatchEvents
    \/ BatchPut
    \/ BatchExit
    \/ BatchReturn

Spec == Init /\ [][Next]_vars

\* The three POST routes.
NextRouter ==
    \/ PostEvents
    \/ PostBatchEvents
    \/ BatchPut
    \/ BatchExit
    \/ BatchReturn
    \/ PostQuery
    \/ QueryPoll

SpecRouter == Init /\ [][NextRouter]_vars

\* One batch request of up to MaxEvents events.
NextBatch ==
    \/ PostBatchEventsLong
    \/ BatchPut
    \/ BatchExit
    \/ BatchReturn

SpecBatch == Init /\ [][NextBatch]_vars

\* Queries over every result set of RowSets.
NextQuery ==
    \/ PostQuery
    \/ QueryPollAnyRows

SpecQuery == Init /\ [][NextQuery]_vars

\* ------------------------------------------------------------------ claims

Range(sq) == {sq[i] : i \in 1..Len(sq)}

\* The number of chunks of a list of n events, and where chunk c starts.
Chunks(n) == (n + batch_size - 1) \div batch_size

ChunkStart(c) == (c - 1) * batch_size

\* A POST /batch/events that reached store_events_batch has answered.
BatchDone == result.op = "create_batch_events" /\ result.status # "400"

\* A POST /query that reached execute_athena_query has answered.
QueryDone == result.op = "execute_query" /\ result.status # "400"

\* A store_event has ended, called directly or by POST /events.
StoreDone ==
    \/ result.op = "store_event"
    \/ result.op = "create_event" /\ result.status # "400"

\* C1: store_events_batch never raises and is chunk-granular: every chunk of at
\* most 25 events is processed, whatever happened to the chunks before it; every
\* event of a chunk whose write failed is in `failed` with that chunk's error
\* message, every event of a chunk whose write succeeded is in `successful`.
C1_ChunkGranular ==
    BatchDone =>
        LET final == result.input.final
            log == result.input.log
            n == Len(result.input.events)
        IN  /\ result.status = "200"
            /\ Len(log) = Chunks(n)
            /\ \A c \in 1..Len(log) : \A j \in 1..chunk_len(n, ChunkStart(c)) :
                 LET e == final[ChunkStart(c) + j]
                 IN  IF log[c].error = Absent
                     THEN e.event_id \in Range(result.value.results.successful)
                     ELSE [event |-> e, error |-> log[c].error]
                              \in Range(result.value.results.failed)

\* Two chunks, the first failed and the second, processed after it, succeeded.
C1_Witness ==
    /\ BatchDone
    /\ Len(result.input.log) = 2
    /\ result.input.log[1].error # Absent
    /\ result.input.log[2].error = Absent
    /\ Len(result.value.results.failed) = batch_size
    /\ result.input.final[batch_size + 1].event_id
           \in Range(result.value.results.successful)

\* What store_events_batch leaves in the events it was given, returns in
\* `successful` and returns in `failed`, read off the input, the clock and the
\* point store's behaviour alone (per chunk: its exception, and how many events
\* were put before it).
ExpectedFinal(events, log, t) ==
    [p \in 1..Len(events) |->
        LET c == (p - 1) \div batch_size + 1
        IN  IF c <= Len(log) /\ p - ChunkStart(c) <= log[c].puts + 1
            THEN inject_metadata(events[p], t).event
            ELSE events[p]]

RECURSIVE ExpectedSuccessful(_, _, _)
ExpectedSuccessful(final, log, c) ==
    IF c = 0 THEN <<>>
    ELSE ExpectedSuccessful(final, log, c - 1)
            \o [j \in 1..log[c].puts |-> final[ChunkStart(c) + j].event_id]

RECURSIVE ExpectedFailed(_, _, _)
ExpectedFailed(final, log, c) ==
    IF c = 0 THEN <<>>
    ELSE ExpectedFailed(final, log, c - 1)
            \o (IF log[c].error = Absent THEN <<>>
                ELSE [j \in 1..chunk_len(Len(final), ChunkStart(c)) |->
                        [event |-> final[ChunkStart(c) + j], error |-> log[c].error]])

\* C2: the archival write is invisible to the caller: what store_event returns or
\* raises (and POST /events answers) is decided by the event and the point-store
\* put alone, and the lists store_events_batch returns by its input, the clock
\* and the point store alone, whether the archival puts succeed, fail or are
\* skipped for an unparsable timestamp.
C2_ArchivalInvisible ==
    /\ StoreDone =>
         LET ok == result.input.put_ok
         IN  /\ result.status = (IF result.op = "store_event"
                                 THEN (IF ok THEN "returned" ELSE "raised")
                                 ELSE (IF ok THEN "200" ELSE "500"))
             /\ result.value = (IF ok THEN [event_id |-> result.input.event.event_id]
                                ELSE None)
             /\ result.error = (IF ok THEN Absent
                                ELSE "Failed to store event: " \o DdbError)
    /\ BatchDone =>
         LET log == result.input.log
             final == ExpectedFinal(result.input.events, log, result.input.t)
         IN  /\ result.status = "200"
             /\ result.input.final = final
             /\ result.value.results.successful =
                    ExpectedSuccessful(final, log, Len(log))
             /\ result.value.results.failed = ExpectedFailed(final, log, Len(log))

\* store_event returned although the archival put failed, and nothing of the
\* event is in the archival store.
C2_Witness ==
    /\ result.op = "store_event"
    /\ result.status = "returned"
    /\ ~result.input.s3_ok
    /\ CanParse(result.input.event.timestamp)
    /\ s3_key(result.input.event) \notin DOMAIN s3_objects

\* C3: the status sequence decides the outcome of execute_query: success exactly
\* when a poll reported SUCCEEDED, a failure carrying the stated reason when a
\* poll reported FAILED or CANCELLED, a timeout when all 30 polls were
\* non-terminal; results are fetched at most once, and only after SUCCEEDED.
C3_StatusDecidesOutcome ==
    QueryDone =>
        LET call == result.input
        IN  /\ result.status = "200" <=> call.last_status = "SUCCEEDED"
            /\ call.last_status \in {"FAILED", "CANCELLED"} =>
                  /\ result.status = "500"
                  /\ result.error = "Failed to execute Athena query: Query failed: "
                        \o (IF call.reason = Absent THEN "Unknown error" ELSE call.reason)
            /\ call.last_status \notin Terminal =>
                  /\ result.status = "500"
                  /\ result.error = "Failed to execute Athena query: Query timeout"
                  /\ call.polls = max_attempts
            /\ call.fetches <= 1
            /\ call.fetches = 1 => call.last_status = "SUCCEEDED"

\* C4: execute_query is a bounded wait: the query is submitted once; there are at
\* most 30 polls and at most 30 waits, one wait after each non-terminal poll; a
\* call still in its loop has polled fewer than 30 times and has seen no terminal
\* status, so no poll follows a terminal one.
C4_BoundedWait ==
    /\ pc = "query" =>
         /\ q.submits = 1
         /\ q.polls < max_attempts
         /\ q.sleeps = q.polls
         /\ q.polls > 0 => q.last_status \notin Terminal
    /\ QueryDone =>
         /\ result.input.submits = 1
         /\ result.input.polls >= 1
         /\ result.input.polls <= max_attempts
         /\ result.input.sleeps <= max_attempts
         /\ result.input.sleeps =
               (IF result.input.last_status \in Terminal
                THEN result.input.polls - 1 ELSE result.input.polls)

\* The backend never left RUNNING or QUEUED: 30 polls, 30 waits, a timeout.
C4_Witness ==
    /\ QueryDone
    /\ result.input.last_status \notin Terminal
    /\ result.input.polls = max_attempts
    /\ result.input.sleeps = max_attempts
    /\ result.error = "Failed to execute Athena query: Query timeout"

\* C5: on ingestion timestamp and event_id are injected only when absent: the
\* event POST /events hands to the point store, and every event
\* store_events_batch puts, keeps the caller's event_id and timestamp; a missing
\* event_id is {user_id}_{unix_seconds}, a missing timestamp the generation time.
InjectedOnlyWhenAbsent(given, stored, t) ==
    /\ stored.event_id = (IF has(given, "event_id") THEN given.event_id
                          ELSE derived_event_id(given.user_id, t))
    /\ stored.timestamp = (IF has(given, "timestamp") THEN given.timestamp
                           ELSE isoformat(t))

C5_InjectedOnlyWhenAbsent ==
    /\ (result.op = "create_event" /\ result.status = "200") =>
         InjectedOnlyWhenAbsent(result.input.body, result.input.event, result.input.t)
    /\ BatchDone =>
         \A c \in 1..Len(result.input.log) : \A j \in 1..result.input.log[c].puts :
            InjectedOnlyWhenAbsent(result.input.events[ChunkStart(c) + j],
                                   result.input.final[ChunkStart(c) + j], result.input.t)

\* C6: read-after-write: a get_event the point store answers, for an id whose last
\* store_event returned with event E, answers 200 with E on all fields, whatever
\* was stored under other ids in between; a later store_event of the same id has
\* replaced E.
C6_ReadAfterWrite ==
    (/\ result.op = "get_event"
     /\ result.input.get_ok
     /\ result.input.event_id \in DOMAIN acked) =>
        /\ result.status = "200"
        /\ result.value = acked[result.input.event_id]

\* The second event stored under "x" is read back, with another id stored too.
C6_Witness ==
    /\ result.op = "get_event"
    /\ result.status = "200"
    /\ result.input.event_id = "x"
    /\ result.value = Event("u1", "view", isoformat(1), "x")
    /\ derived_event_id("u1", 1) \in DOMAIN acked
    /\ now > 1

\* C7: validation happens at the Router: a POST /events body lacking user_id or
\* event_type is answered 400 naming the first missing field only, a POST /query
\* body without sql and a POST /batch/events body without events are answered
\* 400, and the step that answers 400 calls no Service method and leaves the
\* point store, the archival store and the SQL service as they were.
C7_ValidationAtRouter ==
    [][ /\ (pc = "idle" /\ result'.op = "create_event") =>
             LET body == result'.input.body
             IN  IF ~has(body, "user_id")
                 THEN /\ result'.status = "400"
                      /\ result'.error = "Missing required field: user_id"
                 ELSE IF ~has(body, "event_type")
                 THEN /\ result'.status = "400"
                      /\ result'.error = "Missing required field: event_type"
                 ELSE result'.status # "400"
        /\ (pc = "idle" /\ result'.op = "execute_query" /\ ~result'.input.has_sql) =>
             /\ result'.status = "400"
             /\ result'.error = "Missing required field: sql"
        /\ (pc = "idle" /\ result'.op = "create_batch_events"
                /\ ~result'.input.has_events) =>
             /\ result'.status = "400"
             /\ result'.error = "Missing required field: events"
        /\ (pc = "idle" /\ result'.status = "400") =>
             /\ result'.calls = {}
             /\ result'.s3_attempts = 0
             /\ events_table' = events_table
             /\ s3_objects' = s3_objects
             /\ pc' = "idle" /\ q' = q /\ b' = b
      ]_vars

\* A body with neither field is refused naming user_id, the stores holding events.
C7_Witness ==
    /\ result.op = "create_event"
    /\ result.status = "400"
    /\ ~has(result.input.body, "user_id") /\ ~has(result.input.body, "event_type")
    /\ result.error = "Missing required field: user_id"
    /\ events_table # EmptyMap
    /\ s3_objects # EmptyMap

\* C8: when the point-store put of store_event fails, the operation fails with
\* "Failed to store event" (POST /events answers 500 with that error), returns
\* no success value, attempts no archival put and leaves both stores unchanged.
C8_PointStoreFailureFails ==
    [][ (pc = "idle" /\ StoreDone' /\ ~result'.input.put_ok) =>
            /\ result'.status = (IF result'.op = "store_event" THEN "raised" ELSE "500")
            /\ result'.error = "Failed to store event: " \o DdbError
            /\ result'.value = None
            /\ result'.s3_attempts = 0
            /\ s3_objects' = s3_objects
            /\ events_table' = events_table
      ]_vars

\* POST /events answered 500 after a failed put, the archive holding nothing of it.
C8_Witness ==
    /\ result.op = "create_event"
    /\ result.status = "500"
    /\ ~result.input.put_ok
    /\ s3_key(result.input.event) \notin DOMAIN s3_objects
    /\ result.input.event.event_id \notin DOMAIN events_table

\* C9: a SUCCEEDED query parses for every row shape: no rows or a header alone
\* give an empty list; a header and k data rows give k mappings in row order,
\* each giving every cell of its row under the header's column name ("" for a
\* cell without a value), also for a data row shorter or longer than the header.
C9_RowParsing ==
    (QueryDone /\ result.input.last_status = "SUCCEEDED") =>
        LET rows == result.input.rows
        IN  /\ result.status = "200"
            /\ Len(rows) <= 1 => result.value.results = <<>>
            /\ Len(rows) >= 1 =>
                 /\ Len(result.value.results) = Len(rows) - 1
                 /\ \A r \in 1..(Len(rows) - 1) : \A i \in 1..Len(rows[r + 1]) :
                      /\ rows[1][i] \in DOMAIN result.value.results[r]
                      /\ result.value.results[r][rows[1][i]] = cell_value(rows[r + 1][i])

\* C10: store_events_batch accounts for every input event exactly once: no event
\* is both in `successful` and in `failed`, and the two lists together are as
\* long as the input, so that processed + failed is the number submitted.
C10_EveryEventOnce ==
    BatchDone =>
        /\ Len(result.value.results.successful) + Len(result.value.results.failed)
              = Len(result.input.events)
        /\ result.value.processed + result.value.failed = Len(result.input.events)
        /\ \A p \in 1..Len(result.input.events) :
              ~ (/\ result.input.final[p].event_id
                        \in Range(result.value.results.successful)
                 /\ \E f \in Range(result.value.results.failed) :
                        f.event = result.input.final[p])

====
